---- MODULE Spec2Model ----
(***************************************************************************)
(* Telemetry batching and transmission of demo-node-app:                   *)
(*   HttpBatchProcessor      (monitoring/http-observability-setup.js)      *)
(*   ObservabilityHttpClient (monitoring/http-transmission-client.js)      *)
(*                                                                         *)
(* JavaScript runs every callback to completion, and an async function     *)
(* runs synchronously up to its first await.  One action of this model is  *)
(* therefore one event-loop task: a producer call (add*, flush) together   *)
(* with the synchronous prefix of flush() and sendBatch() up to the        *)
(* awaited POST, the firing of a timer, or the settling of a pending POST. *)
(***************************************************************************)
EXTENDS Integers, Sequences, FiniteSets, TLC

\* ---- bounds of the model ------------------------------------------------
MaxRecords == 11      \* records created by the producers in one behaviour
MaxArray == 2         \* longest span array handed to addTrace
MaxInflight == 2      \* POSTs awaiting their response at the same time
MaxHealth == 1        \* health POSTs awaiting their response at the same time
MaxHeapRecords == 4   \* records pushed in the array-object view of the buffer
MaxHeapFlushes == 2   \* flushes in the array-object view of the buffer
batchSize == 3        \* config.HTTP_BATCH_SIZE (environment, default 10)

\* ---- program constants --------------------------------------------------
maxFailures == 5
maxRetries == 3

VARIABLES
  logs, metrics, traces,   \* HttpBatchProcessor: the three buffered sequences
  timeout,                 \* HttpBatchProcessor.timeout: 0 = null, else a timer handle
  pendingTimers,           \* flush timers armed in the event loop (handles)
  circuitBreakerOpen,      \* ObservabilityHttpClient.circuitBreakerOpen
  failureCount,            \* ObservabilityHttpClient.failureCount
  cooldownTimers,          \* armed 5-minute reset timers (equal delay: fire in order)
  inflight,                \* POSTs to /v1/observability/batch awaiting a response
  healthInflight,          \* POSTs to /v1/observability/health awaiting a response
  terminated,              \* the process has exited
  HTTP_TRANSMISSION_ENABLED, \* config flag, read from the environment at start
  heap,                    \* the array objects: address -> contents
  fields,                  \* addresses held by this.logs / this.metrics / this.traces
  handed,                  \* batch objects handed to sendBatch, POST not settled
  pushed,                  \* number of records pushed in the array-object view
  nextId,                  \* history: number of records created so far
  placed,                  \* history: record id -> number of batches it was put in
  sinceFlush,              \* history: records appended since the last batch was handed over
  consec,                  \* history: failed attempts since the last success or Open->Closed reset
  earlier,                 \* history: pending cooldown timers scheduled before the latest opening
  last                     \* history: what the last task did

vars == <<logs, metrics, traces, timeout, pendingTimers, circuitBreakerOpen,
          failureCount, cooldownTimers, inflight, healthInflight, terminated,
          heap, fields, handed, pushed, HTTP_TRANSMISSION_ENABLED,
          nextId, placed, sinceFlush, consec, earlier, last>>

EmptyBatch == [logs |-> <<>>, metrics |-> <<>>, traces |-> <<>>]

Total(b) == Len(b.logs) + Len(b.metrics) + Len(b.traces)

Ids(b) == {b.logs[i] : i \in DOMAIN b.logs} \cup {b.metrics[i] : i \in DOMAIN b.metrics}
          \cup {b.traces[i] : i \in DOMAIN b.traces}

\* The program state a task starts from; sends, posts and skips collect the
\* batches the task hands to sendBatch, the HTTP POSTs it issues and the
\* sendBatch calls that return false at the circuit-breaker check.
\* result is what the sendBatch call the task is in has returned so far
\* ("pending": its promise is not settled, "rejected": it threw), raised
\* counts the errors the task lets escape (thrown to the caller of add*, or
\* a rejected promise nobody handles), healthPosts the health POSTs issued.
Cur ==
  [logs |-> logs, metrics |-> metrics, traces |-> traces, timeout |-> timeout,
   pendingTimers |-> pendingTimers, circuitBreakerOpen |-> circuitBreakerOpen,
   failureCount |-> failureCount, cooldownTimers |-> cooldownTimers,
   inflight |-> inflight, sends |-> <<>>, posts |-> 0, skips |-> 0,
   result |-> "none", raised |-> 0,
   healthInflight |-> healthInflight, healthPosts |-> 0, terminated |-> terminated]

\* ---- ObservabilityHttpClient --------------------------------------------

resetFailureCount_keepCount(s) ==
  [s EXCEPT !.circuitBreakerOpen = FALSE]

resetFailureCount(s) ==
  [s EXCEPT !.failureCount = 0, !.circuitBreakerOpen = FALSE]

handleFailure_noTimer(s) ==
  LET s1 == [s EXCEPT !.failureCount = @ + 1] IN
  IF s1.failureCount >= maxFailures
  THEN [s1 EXCEPT !.circuitBreakerOpen = TRUE]
  ELSE s1

handleFailure(s) ==
  LET s1 == [s EXCEPT !.failureCount = @ + 1] IN
  IF s1.failureCount >= maxFailures
  THEN [s1 EXCEPT !.circuitBreakerOpen = TRUE, !.cooldownTimers = @ + 1]
  ELSE s1

cooldownCallback_keepCount(s) ==
  [s EXCEPT !.circuitBreakerOpen = FALSE]

\* the callback of the setTimeout in handleFailure
cooldownCallback(s) ==
  [s EXCEPT !.circuitBreakerOpen = FALSE, !.failureCount = 0]

\* this.httpClient.post(...): the request leaves, the promise is pending
post(s) ==
  [s EXCEPT !.inflight = @ + 1, !.posts = @ + 1, !.result = "pending"]

sendBatch_failOnOpen(s, batch) ==
  LET s1 == [s EXCEPT !.sends = Append(@, batch)] IN
  IF s1.circuitBreakerOpen
  THEN handleFailure([s1 EXCEPT !.skips = @ + 1, !.result = "false"])
  ELSE post(s1)

\* sendBatch up to its await
sendBatch_requeueOnSkip(s, batch) ==
  LET s1 == [s EXCEPT !.sends = Append(@, batch)] IN
  IF s1.circuitBreakerOpen
  THEN [s1 EXCEPT !.skips = @ + 1, !.result = "false",
                  !.logs = batch.logs \o @,
                  !.metrics = batch.metrics \o @,
                  !.traces = batch.traces \o @]
  ELSE post(s1)

sendBatch(s, batch) ==
  LET s1 == [s EXCEPT !.sends = Append(@, batch)] IN
  IF s1.circuitBreakerOpen
  THEN [s1 EXCEPT !.skips = @ + 1, !.result = "false"]
  ELSE post(s1)

\* sendBatch after the await, the POST answered with success
postResolved(s) ==
  [resetFailureCount([s EXCEPT !.inflight = @ - 1]) EXCEPT !.result = "true"]

postRejected_retry(s) ==
  LET s1 == handleFailure([s EXCEPT !.inflight = @ - 1]) IN
  IF s1.failureCount < maxRetries THEN post(s1) ELSE [s1 EXCEPT !.result = "false"]

\* sendBatch after the await, the POST threw: the catch block
postRejected(s) ==
  [handleFailure([s EXCEPT !.inflight = @ - 1]) EXCEPT !.result = "false"]

\* sendHealthStatus up to its await: no breaker check
sendHealthStatus(s) ==
  [s EXCEPT !.healthInflight = @ + 1, !.healthPosts = @ + 1]

\* sendHealthStatus after the await, success: return true
healthResolved(s) ==
  [s EXCEPT !.healthInflight = @ - 1]

healthRejected_countsFailure(s) ==
  handleFailure([s EXCEPT !.healthInflight = @ - 1])

\* sendHealthStatus after the await, the POST threw: log, return false
healthRejected(s) ==
  [s EXCEPT !.healthInflight = @ - 1]

\* ---- HttpBatchProcessor -------------------------------------------------

NewHandle(s) ==
  CHOOSE h \in 1..(Cardinality(s.pendingTimers) + 2) :
    /\ h \notin s.pendingTimers \cup {s.timeout}
    /\ \A g \in 1..(h - 1) : g \in s.pendingTimers \cup {s.timeout}

setTimeout(s) ==
  LET h == NewHandle(s) IN
  [s EXCEPT !.timeout = h, !.pendingTimers = @ \cup {h}]

clearTimeout(s) ==
  [s EXCEPT !.pendingTimers = @ \ {s.timeout}]

flushResume_raise(s) ==
  IF s.result \in {"false", "rejected"} THEN [s EXCEPT !.result = "rejected"] ELSE s

\* flush after its await (the try/catch around sendBatch): the value
\* sendBatch returned is dropped, an error it threw is logged and swallowed
flushResume(s) ==
  IF s.result = "rejected" THEN [s EXCEPT !.result = "logged"] ELSE s

flush_keepTraces(s) ==
  IF Len(s.logs) = 0 /\ Len(s.metrics) = 0 /\ Len(s.traces) = 0
  THEN s
  ELSE LET batch == [logs |-> s.logs, metrics |-> s.metrics, traces |-> s.traces]
           s1 == [s EXCEPT !.logs = <<>>, !.metrics = <<>>]
           s2 == IF s1.timeout # 0
                 THEN [clearTimeout(s1) EXCEPT !.timeout = 0]
                 ELSE s1
           s3 == sendBatch(s2, batch)
       IN IF s3.result = "pending" THEN s3 ELSE flushResume(s3)

flush_noEmptyCheck(s) ==
  LET batch == [logs |-> s.logs, metrics |-> s.metrics, traces |-> s.traces]
      s1 == [s EXCEPT !.logs = <<>>, !.metrics = <<>>, !.traces = <<>>]
      s2 == IF s1.timeout # 0
            THEN [clearTimeout(s1) EXCEPT !.timeout = 0]
            ELSE s1
      s3 == sendBatch(s2, batch)
  IN IF s3.result = "pending" THEN s3 ELSE flushResume(s3)

flush(s) ==
  IF Len(s.logs) = 0 /\ Len(s.metrics) = 0 /\ Len(s.traces) = 0
  THEN s
  ELSE LET batch == [logs |-> s.logs, metrics |-> s.metrics, traces |-> s.traces]
           s1 == [s EXCEPT !.logs = <<>>, !.metrics = <<>>, !.traces = <<>>]
           s2 == IF s1.timeout # 0
                 THEN [clearTimeout(s1) EXCEPT !.timeout = 0]
                 ELSE s1
           s3 == sendBatch(s2, batch)
       IN IF s3.result = "pending" THEN s3 ELSE flushResume(s3)

checkBatchSize_gt(s) ==
  IF Len(s.logs) + Len(s.metrics) + Len(s.traces) > batchSize
  THEN flush(s)
  ELSE IF s.timeout = 0 THEN setTimeout(s) ELSE s

checkBatchSize_defer(s) ==
  IF s.timeout = 0 THEN setTimeout(s) ELSE s

checkBatchSize_alwaysArm(s) ==
  IF Len(s.logs) + Len(s.metrics) + Len(s.traces) >= batchSize
  THEN flush(s)
  ELSE setTimeout(s)

checkBatchSize(s) ==
  IF Len(s.logs) + Len(s.metrics) + Len(s.traces) >= batchSize
  THEN flush(s)
  ELSE IF s.timeout = 0 THEN setTimeout(s) ELSE s

addLog(s, log) ==
  checkBatchSize([s EXCEPT !.logs = Append(@, log)])

addMetric(s, metric) ==
  checkBatchSize([s EXCEPT !.metrics = Append(@, metric)])

addTrace_noCheck(s, traceItem) ==
  [s EXCEPT !.traces = @ \o traceItem]

\* traceItem is the sequence of records pushed: the elements of an array
\* argument, or the one record of a non-array argument
addTrace(s, traceItem) ==
  checkBatchSize([s EXCEPT !.traces = @ \o traceItem])

\* ---- history bookkeeping ------------------------------------------------

Adds == {"addLog", "addMetric", "addTrace", "addTraceArray"}

Appended(b, op, arg) ==
  IF op = "addLog" THEN [b EXCEPT !.logs = @ \o arg]
  ELSE IF op = "addMetric" THEN [b EXCEPT !.metrics = @ \o arg]
  ELSE IF op \in {"addTrace", "addTraceArray"} THEN [b EXCEPT !.traces = @ \o arg]
  ELSE b

TimesSent(sends, id) ==
  Cardinality({k \in DOMAIN sends : id \in Ids(sends[k])})

FreshIds(n) == [i \in 1..n |-> nextId + i]

\* One task ran from Cur to s: install s as the new program state and
\* record what the task did.
Step(s, op, arg) ==
  /\ ~terminated
  /\ s.inflight <= MaxInflight
  /\ s.healthInflight <= MaxHealth
  /\ logs' = s.logs
  /\ metrics' = s.metrics
  /\ traces' = s.traces
  /\ timeout' = s.timeout
  /\ pendingTimers' = s.pendingTimers
  /\ circuitBreakerOpen' = s.circuitBreakerOpen
  /\ failureCount' = s.failureCount
  /\ cooldownTimers' = s.cooldownTimers
  /\ inflight' = s.inflight
  /\ healthInflight' = s.healthInflight
  /\ terminated' = s.terminated
  /\ UNCHANGED <<heap, fields, handed, pushed, HTTP_TRANSMISSION_ENABLED>>
  /\ nextId' = nextId + Len(arg)
  /\ placed' = [i \in DOMAIN placed |-> placed[i] + TimesSent(s.sends, i)]
  /\ sinceFlush' = IF s.sends # <<>> THEN EmptyBatch ELSE Appended(sinceFlush, op, arg)
  /\ consec' = IF op = "postRejected" THEN consec + 1
               ELSE IF op = "postResolved" THEN 0
               ELSE IF op = "cooldown" /\ circuitBreakerOpen THEN 0
               ELSE consec
  /\ earlier' = IF ~circuitBreakerOpen /\ s.circuitBreakerOpen THEN cooldownTimers
                ELSE IF op = "cooldown" /\ earlier > 0 THEN earlier - 1
                ELSE earlier
  /\ last' = [op |-> op, arg |-> arg, sends |-> s.sends, posts |-> s.posts,
              skips |-> s.skips, fc |-> failureCount, open |-> circuitBreakerOpen,
              result |-> s.result,
              raised |-> s.raised + (IF s.result = "rejected" THEN 1 ELSE 0),
              healthPosts |-> s.healthPosts, timer |-> pendingTimers # {}]

\* ---- the tasks ----------------------------------------------------------

\* HttpTransport.log: the transport is added to the logger only when the
\* flag is on
AddLog ==
  /\ HTTP_TRANSMISSION_ENABLED
  /\ nextId < MaxRecords
  /\ Step(addLog(Cur, nextId + 1), "addLog", FreshIds(1))

\* the res.end hook: addMetric(metricData) inside the flag check
AddMetric ==
  /\ HTTP_TRANSMISSION_ENABLED
  /\ nextId < MaxRecords
  /\ Step(addMetric(Cur, nextId + 1), "addMetric", FreshIds(1))

\* the res.end hook: addTrace(traceSummary), a single record, inside the
\* flag check
AddTrace ==
  /\ HTTP_TRANSMISSION_ENABLED
  /\ nextId < MaxRecords
  /\ Step(addTrace(Cur, FreshIds(1)), "addTrace", FreshIds(1))

\* CustomHttpExporter.export, called by the span processor of the SDK that
\* is started in every configuration: addTrace(formattedSpans), an array,
\* possibly empty; the flag is not read
AddTraceArray ==
  \E n \in 0..MaxArray :
    /\ nextId + n <= MaxRecords
    /\ Step(addTrace(Cur, FreshIds(n)), "addTraceArray", FreshIds(n))

\* the flush timer of checkBatchSize fires
TimerFire ==
  \E h \in pendingTimers :
    Step(flush([Cur EXCEPT !.pendingTimers = @ \ {h}]), "timer", <<>>)

\* batchProcessor.flush() called directly
Flush ==
  Step(flush(Cur), "flush", <<>>)

PostResolved ==
  /\ inflight > 0
  /\ Step(flushResume(postResolved(Cur)), "postResolved", <<>>)

PostRejected ==
  /\ inflight > 0
  /\ Step(flushResume(postRejected(Cur)), "postRejected", <<>>)

\* All cooldown timers have the same delay, so they fire in the order they
\* were scheduled: the one that fires is the oldest pending one.
CooldownFire ==
  /\ cooldownTimers > 0
  /\ Step(cooldownCallback([Cur EXCEPT !.cooldownTimers = @ - 1]), "cooldown", <<>>)

\* GET /health with transmission enabled: httpClient.sendHealthStatus(...)
SendHealthStatus ==
  /\ HTTP_TRANSMISSION_ENABLED
  /\ Step(sendHealthStatus(Cur), "sendHealthStatus", <<>>)

HealthResolved ==
  /\ healthInflight > 0
  /\ Step(healthResolved(Cur), "healthResolved", <<>>)

HealthRejected ==
  /\ healthInflight > 0
  /\ Step(healthRejected(Cur), "healthRejected", <<>>)

\* the process ends (a signal, Ctrl+C): no handler is registered, nothing runs
exit(s) ==
  [s EXCEPT !.terminated = TRUE]

Terminate ==
  Step(exit(Cur), "exit", <<>>)

Init ==
  /\ logs = <<>>
  /\ metrics = <<>>
  /\ traces = <<>>
  /\ timeout = 0
  /\ pendingTimers = {}
  /\ circuitBreakerOpen = FALSE
  /\ failureCount = 0
  /\ cooldownTimers = 0
  /\ inflight = 0
  /\ healthInflight = 0
  /\ terminated = FALSE
  /\ HTTP_TRANSMISSION_ENABLED \in BOOLEAN
  /\ heap = <<<<>>, <<>>, <<>>>>
  /\ fields = [logs |-> 1, metrics |-> 2, traces |-> 3]
  /\ handed = <<>>
  /\ pushed = 0
  /\ nextId = 0
  /\ placed = [i \in 1..MaxRecords |-> 0]
  /\ sinceFlush = EmptyBatch
  /\ consec = 0
  /\ earlier = 0
  /\ last = [op |-> "init", arg |-> <<>>, sends |-> <<>>, posts |-> 0,
             skips |-> 0, fc |-> 0, open |-> FALSE,
             result |-> "none", raised |-> 0, healthPosts |-> 0, timer |-> FALSE]

Next ==
  \/ AddLog
  \/ AddMetric
  \/ AddTrace
  \/ AddTraceArray
  \/ TimerFire
  \/ Flush
  \/ PostResolved
  \/ PostRejected
  \/ CooldownFire

Spec == Init /\ [][Next]_vars

\* A cooldown timer armed by setTimeout fires: the callback is run by the
\* event loop once its delay has passed.
FairSpec == Spec /\ WF_vars(CooldownFire)

\* ---- the buffer as array objects ----------------------------------------
\* The arrays of the batch processor and of the batches it hands over are
\* objects with identity: heap maps an address to the array's contents,
\* fields holds the addresses in this.logs, this.metrics and this.traces,
\* and a batch object holds three addresses. snap is the contents of the
\* batch's arrays when it was handed to sendBatch.

Obj == [heap |-> heap, fields |-> fields, handed |-> handed]

Contents(h, refs) ==
  [logs |-> h[refs.logs], metrics |-> h[refs.metrics], traces |-> h[refs.traces]]

\* this.<field>.push(record)
push(o, field, record) ==
  [o EXCEPT !.heap[o.fields[field]] = Append(@, record)]

\* the batch shares the arrays of the buffer, which are emptied in place
snapshotAndClear_alias(o) ==
  [o EXCEPT !.heap = [a \in DOMAIN @ |->
                        IF a \in {o.fields.logs, o.fields.metrics, o.fields.traces}
                        THEN <<>> ELSE @[a]],
            !.handed = Append(@, [refs |-> o.fields,
                                   snap |-> Contents(o.heap, o.fields)])]

\* batch = {logs: [...this.logs], ...}: three new arrays holding copies;
\* this.logs = [] ...: the fields are re-pointed to three new empty arrays
snapshotAndClear(o) ==
  LET n == Len(o.heap)
      copies == <<o.heap[o.fields.logs], o.heap[o.fields.metrics], o.heap[o.fields.traces]>>
      batch == [logs |-> n + 1, metrics |-> n + 2, traces |-> n + 3]
      h1 == o.heap \o copies
  IN [o EXCEPT !.heap = h1 \o <<<<>>, <<>>, <<>>>>,
               !.fields = [logs |-> n + 4, metrics |-> n + 5, traces |-> n + 6],
               !.handed = Append(@, [refs |-> batch, snap |-> Contents(h1, batch)])]

HeapStep(o) ==
  /\ heap' = o.heap
  /\ fields' = o.fields
  /\ handed' = o.handed
  /\ UNCHANGED <<logs, metrics, traces, timeout, pendingTimers, circuitBreakerOpen,
                 failureCount, cooldownTimers, inflight, healthInflight, terminated,
                 HTTP_TRANSMISSION_ENABLED, nextId, placed, sinceFlush, consec,
                 earlier, last>>

\* addLog / addMetric / addTrace: the push
HeapPush ==
  /\ pushed < MaxHeapRecords
  /\ pushed' = pushed + 1
  /\ \E field \in {"logs", "metrics", "traces"} :
       /\ field = "traces" \/ HTTP_TRANSMISSION_ENABLED
       /\ HeapStep(push(Obj, field, pushed + 1))

\* flush from its empty check to the call of sendBatch
HeapFlush ==
  /\ heap[fields.logs] # <<>> \/ heap[fields.metrics] # <<>> \/ heap[fields.traces] # <<>>
  /\ Len(heap) < 3 + 6 * MaxHeapFlushes
  /\ pushed' = pushed
  /\ HeapStep(snapshotAndClear(Obj))

\* the POST of a handed batch settles: the batch object is dropped
HeapSettle ==
  /\ pushed' = pushed
  /\ \E i \in DOMAIN handed :
       HeapStep([Obj EXCEPT !.handed = SubSeq(@, 1, i - 1) \o SubSeq(@, i + 1, Len(@))])

HeapNext ==
  \/ HeapPush
  \/ HeapFlush
  \/ HeapSettle

HeapSpec == Init /\ [][HeapNext]_vars

\* The client with the health pushes of GET /health; the producers are the
\* log transport and the flush timer.
HealthNext ==
  \/ AddLog
  \/ TimerFire
  \/ PostResolved
  \/ PostRejected
  \/ CooldownFire
  \/ SendHealthStatus
  \/ HealthResolved
  \/ HealthRejected

HealthSpec == Init /\ [][HealthNext]_vars

\* The program with the end of the process.
ExitNext ==
  \/ Next
  \/ Terminate

ExitSpec == Init /\ [][ExitNext]_vars

Buffer == [logs |-> logs, metrics |-> metrics, traces |-> traces]

TypeOK ==
  /\ nextId \in 0..MaxRecords
  /\ failureCount \in Nat
  /\ inflight \in 0..MaxInflight
  /\ circuitBreakerOpen \in BOOLEAN

InBuffer(id) ==
  Cardinality({i \in DOMAIN logs : logs[i] = id})
  + Cardinality({i \in DOMAIN metrics : metrics[i] = id})
  + Cardinality({i \in DOMAIN traces : traces[i] = id})

\* ---- C1 ------------------------------------------------------------------
\* C1: an add* call hands exactly one batch to sendBatch when the records
\* appended since the previous flush, together with the ones it appends,
\* number batchSize or more, and none otherwise; that batch holds exactly
\* those records, each of the three sequences in insertion order.
C1_FlushAtThreshold ==
  [][last'.op \in Adds =>
       LET exp == Appended(sinceFlush, last'.op, last'.arg) IN
       IF Total(exp) >= batchSize
       THEN last'.sends = <<exp>>
       ELSE last'.sends = <<>>]_vars

C1_Witness ==
  /\ last.op \in Adds
  /\ Len(last.sends) = 1
  /\ Total(last.sends[1]) = batchSize
  /\ last.sends[1].logs # <<>>
  /\ last.sends[1].metrics # <<>>
  /\ last.sends[1].traces # <<>>

\* ---- C2 ------------------------------------------------------------------
\* C2: records buffered below batchSize are flushed by the timer: whenever
\* such records wait in the buffer a flush timer is armed, the flush of a
\* firing timer hands over exactly the buffered records, and an append that
\* stays below batchSize hands over nothing.
C2_TimerFlushesPending ==
  [][/\ (0 < Total(Buffer') /\ Total(Buffer') < batchSize) => pendingTimers' # {}
     /\ (last'.op = "timer" /\ Total(Buffer) > 0) => last'.sends = <<Buffer>>
     /\ (last'.op \in Adds /\ Total(Appended(Buffer, last'.op, last'.arg)) < batchSize)
          => last'.sends = <<>>]_vars

\* ---- C3 ------------------------------------------------------------------
\* C3: under every interleaving of appends, timer firings and settling
\* POSTs, every record created so far is either in the buffer once and in
\* no batch, or in exactly one batch handed to sendBatch and not in the
\* buffer.
C3_NoLossNoDuplicate ==
  \A id \in 1..MaxRecords :
    InBuffer(id) + placed[id] = (IF id <= nextId THEN 1 ELSE 0)

C3_Witness ==
  /\ inflight >= 2
  /\ last.op = "timer"
  /\ Len(last.sends) = 1
  /\ Total(last.sends[1]) >= 2
  /\ \E id \in 1..MaxRecords : id <= nextId /\ placed[id] = 1 /\ id \notin Ids(last.sends[1])

\* ---- C4 ------------------------------------------------------------------
\* C4: when a failed attempt is the maxFailures-th in a row (no success and
\* no Open->Closed reset in between) the breaker is Open after it, and with
\* fewer failures in a row the breaker is Closed.
C4_OpensAfterMaxFailures ==
  /\ (last.op = "postRejected" /\ consec = maxFailures) => circuitBreakerOpen
  /\ consec < maxFailures => ~circuitBreakerOpen

\* ---- C5 ------------------------------------------------------------------
\* C5: a sendBatch call made while the breaker is Open returns false at the
\* breaker check, issues no POST and leaves the failure counter as it was.
C5_OpenSkips ==
  (last.open /\ last.sends # <<>>) =>
    /\ last.skips = Len(last.sends)
    /\ last.posts = 0
    /\ failureCount = last.fc

C5_Witness ==
  /\ last.open
  /\ Len(last.sends) = 1
  /\ last.skips = 1
  /\ failureCount >= maxFailures

\* ---- C6 ------------------------------------------------------------------
\* C6: the breaker goes from Open to Closed only in the cooldown callback,
\* which leaves the failure counter at 0.
C6_ClosedOnlyByCooldown ==
  [][(circuitBreakerOpen /\ ~circuitBreakerOpen') =>
       (last'.op = "cooldown" /\ failureCount' = 0)]_vars

\* ---- C7 ------------------------------------------------------------------
\* C7: while the breaker is Open a cooldown timer is armed; once armed
\* timers fire, an Open breaker leads to a Closed breaker with failure
\* counter 0; the cooldown callback leaves the breaker Closed with counter
\* 0, and a sendBatch call made while Closed issues its POST.
C7_SelfHeals ==
  /\ [](circuitBreakerOpen => cooldownTimers > 0)
  /\ [](last.op = "cooldown" => (~circuitBreakerOpen /\ failureCount = 0))
  /\ []((~last.open /\ last.sends # <<>>) => last.posts = Len(last.sends))
  /\ (circuitBreakerOpen ~> (~circuitBreakerOpen /\ failureCount = 0))

C7_Witness ==
  /\ last.op = "cooldown"
  /\ last.open
  /\ last.fc >= maxFailures
  /\ ~circuitBreakerOpen
  /\ failureCount = 0

\* ---- C8 ------------------------------------------------------------------
\* C8: a POST answered with success leaves the failure counter at 0, and
\* the counter never exceeds the failures seen since the last success.
C8_SuccessResets ==
  /\ last.op = "postResolved" => failureCount = 0
  /\ failureCount <= consec

C8_Witness ==
  /\ last.op = "postResolved"
  /\ ~last.open
  /\ last.fc = maxFailures - 1
  /\ failureCount = 0

\* ---- C9 ------------------------------------------------------------------
\* C9: flush() on a buffer whose three sequences are empty, called directly
\* or by a firing timer, calls sendBatch not at all, issues no POST and
\* leaves logs, metrics, traces and timeout as they were.
C9_EmptyFlushNoOp ==
  [][(last'.op \in {"flush", "timer"} /\ Total(Buffer) = 0) =>
       /\ last'.sends = <<>>
       /\ last'.posts = 0
       /\ UNCHANGED <<logs, metrics, traces, timeout, inflight>>]_vars

C9_Witness ==
  /\ last.op = "timer"
  /\ Total(Buffer) = 0
  /\ last.sends = <<>>
  /\ timeout # 0

C11_FailedBatchDropped ==
  [][/\ \A id \in 1..MaxRecords :
          placed[id] >= 1 => (InBuffer(id)' = 0 /\ placed'[id] = placed[id])
     /\ last'.op = "postRejected" =>
          (Buffer' = Buffer /\ last'.sends = <<>> /\ last'.posts = 0)
     /\ last'.skips > 0 =>
          /\ last'.posts = 0
          /\ \A k \in DOMAIN last'.sends :
               \A id \in Ids(last'.sends[k]) : InBuffer(id)' = 0]_vars

C11_Witness ==
  /\ last.op = "postRejected"
  /\ circuitBreakerOpen
  /\ Total(Buffer) > 0
  /\ \E id \in 1..MaxRecords : placed[id] = 1

\* ---- C12 -----------------------------------------------------------------
\* C12: addLog, addMetric and addTrace always succeed and return without
\* waiting for delivery. No task lets an error escape (thrown to the caller
\* or as a rejected promise), whether the POST of its flush failed or the
\* batch was skipped at the Open breaker; an add* call that issues a POST
\* returns while that POST is still pending, and one whose batch is skipped
\* returns with sendBatch's false dropped.
C12_ProducerNeverFails ==
  /\ last.raised = 0
  /\ last.result # "rejected"
  /\ (last.op \in Adds /\ last.posts > 0) => (last.result = "pending" /\ inflight > 0)
  /\ (last.op \in Adds /\ last.skips > 0) => last.result = "false"

C12_Witness ==
  /\ last.op \in Adds
  /\ last.open
  /\ last.skips = 1
  /\ last.result = "false"
  /\ inflight > 0

\* ---- C13 -----------------------------------------------------------------
\* C13: sendHealthStatus is independent of the circuit breaker. The call
\* issues its POST in every breaker state, Open included, and neither the
\* call nor the success or failure of its POST changes the breaker flag,
\* the failure counter or the cooldown timers.
C13_HealthIgnoresBreaker ==
  [][/\ last'.op \in {"sendHealthStatus", "healthResolved", "healthRejected"} =>
          /\ circuitBreakerOpen' = circuitBreakerOpen
          /\ failureCount' = failureCount
          /\ cooldownTimers' = cooldownTimers
     /\ last'.op = "sendHealthStatus" =>
          (last'.healthPosts = 1 /\ healthInflight' = healthInflight + 1)]_vars

C13_Witness ==
  /\ last.op = "sendHealthStatus"
  /\ last.open
  /\ circuitBreakerOpen
  /\ last.healthPosts = 1
  /\ healthInflight = 1

\* ---- C14 -----------------------------------------------------------------
\* C14: in every state between tasks a flush timer is pending if and only
\* if at least one record is buffered and the combined count is below
\* batchSize.
C14_TimerIffPending ==
  (pendingTimers # {}) <=> (0 < Total(Buffer) /\ Total(Buffer) < batchSize)

\* ---- C15 -----------------------------------------------------------------
\* C15: at most one flush timer is pending at any time, and it is the one
\* this.timeout holds; no flush timer is started while one is pending; and
\* a task whose flush hands a batch to sendBatch ends with no timer pending
\* and this.timeout null.
C15_OneFlushTimer ==
  [][/\ Cardinality(pendingTimers') <= 1
     /\ pendingTimers' \subseteq {timeout'}
     /\ pendingTimers # {} => pendingTimers' \subseteq pendingTimers
     /\ last'.sends # <<>> => (pendingTimers' = {} /\ timeout' = 0)]_vars

C15_Witness ==
  /\ last.op \in Adds
  /\ last.timer
  /\ last.sends # <<>>
  /\ pendingTimers = {}
  /\ timeout = 0

\* ---- C16 -----------------------------------------------------------------
\* C16: when an addLog, addMetric or addTrace call has returned, the
\* combined number of buffered records is strictly below batchSize: the
\* append that reaches the threshold flushes within the same call, which
\* leaves the buffer empty.
C16_BelowThresholdAfterAdd ==
  last.op \in Adds =>
    /\ Total(Buffer) < batchSize
    /\ last.sends # <<>> => Total(Buffer) = 0

C16_Witness ==
  /\ last.op \in Adds
  /\ Len(last.sends) = 1
  /\ Total(last.sends[1]) > batchSize
  /\ Total(Buffer) = 0

\* ---- C17 -----------------------------------------------------------------
\* C17: a cooldown timer is scheduled exactly when the breaker goes from
\* Closed to Open, one per transition; no task schedules a cooldown timer
\* while the breaker is already Open.
C17_OneCooldownPerOpening ==
  [][/\ cooldownTimers' > cooldownTimers <=> (~circuitBreakerOpen /\ circuitBreakerOpen')
     /\ cooldownTimers' <= cooldownTimers + 1]_vars

\* ---- C18 -----------------------------------------------------------------
\* C18: a batch handed to sendBatch is never changed afterwards: while its
\* send is in flight, through every later push and flush, the contents of
\* its logs, metrics and traces arrays are those of snapshot time.
C18_BatchImmutable ==
  \A i \in DOMAIN handed :
    Contents(heap, handed[i].refs) = handed[i].snap

C18_Witness ==
  /\ Len(handed) = 2
  /\ handed[1].snap.logs # <<>>
  /\ handed[2].snap.logs # <<>>
  /\ heap[fields.logs] # <<>>

\* ---- C19 -----------------------------------------------------------------
\* C19: when the process terminates while records are buffered, a final
\* flush hands the buffered records to sendBatch before teardown.
C19_FinalFlush ==
  [][(~terminated /\ terminated' /\ Total(Buffer) > 0) =>
       (last'.sends = <<Buffer>> /\ Total(Buffer') = 0)]_vars

\* ---- C20 -----------------------------------------------------------------
\* C20: in every reachable state, those reached through interleaved
\* completions of concurrent sends included, the breaker is Open if and only
\* if the failure counter is at least maxFailures.
C20_OpenIffCounterAtMax ==
  circuitBreakerOpen <=> failureCount >= maxFailures

C20_Witness ==
  /\ last.op = "postRejected"
  /\ last.open
  /\ circuitBreakerOpen
  /\ failureCount = maxFailures + 1

\* ---- C21 -----------------------------------------------------------------
\* C21: the failure counter never exceeds maxFailures, and no task run
\* while the breaker is Open (the failure of a send that was in flight when
\* it opened included) increments the counter.
C21_CounterCapped ==
  [][/\ failureCount' <= maxFailures
     /\ circuitBreakerOpen => failureCount' <= failureCount]_vars

\* ---- C22 -----------------------------------------------------------------
\* C22: each time the breaker becomes Open it stays Open for the full
\* cooldown counted from that opening: a cooldown timer scheduled before
\* the latest opening never closes the breaker.
C22_FullCooldown ==
  [][(last'.op = "cooldown" /\ earlier > 0 /\ circuitBreakerOpen)
       => circuitBreakerOpen']_vars

\* ---- C23 -----------------------------------------------------------------
\* C23: every batch handed to sendBatch contains at least 1 and at most
\* batchSize records in total across logs, metrics and traces.
C23_BatchSizeBounded ==
  \A k \in DOMAIN last.sends :
    /\ Total(last.sends[k]) >= 1
    /\ Total(last.sends[k]) <= batchSize

\* C23 (amended): every batch handed to sendBatch contains at least 1
\* record and at most batchSize - 1 records besides the ones appended by
\* the call that flushes it: at most batchSize when that call appends one
\* record, batchSize - 1 + n when it is addTrace with a sequence of n
\* records, and fewer than batchSize when a timer flushes it.
C23_BatchSizeAmended ==
  \A k \in DOMAIN last.sends :
    /\ Total(last.sends[k]) >= 1
    /\ Total(last.sends[k]) <= batchSize - 1 + Len(last.arg)

C23_Witness ==
  /\ last.op = "addTraceArray"
  /\ Len(last.arg) = MaxArray
  /\ Len(last.sends) = 1
  /\ Total(last.sends[1]) = batchSize - 1 + MaxArray

\* ---- C24 -----------------------------------------------------------------
\* C24: when the transmission-enabled flag is off no record from any
\* producer reaches the buffer and no batch is handed to the client: the
\* buffer stays empty, nothing is sent and no POST is in flight.
C24_FlagOffNothingSent ==
  ~HTTP_TRANSMISSION_ENABLED =>
    /\ Total(Buffer) = 0
    /\ last.sends = <<>>
    /\ inflight = 0

====
